---- MODULE Spec2Model ----
(***************************************************************************)
(* A model of XAgent/logs.py: the Logger facade (a process-wide singleton) *)
(* with its three channels TYPER, LOGGER and JSON_LOGGER, the handlers the *)
(* constructor attaches to them, the typing animation of                   *)
(* TypingConsoleHandler, the transient JsonFileHandler of log_json, the    *)
(* chat_plugins observers and the log_lock around the animated path.       *)
(*                                                                         *)
(* Text is a sequence of characters (one-character strings; "ESC" stands   *)
(* for \x1B and "\n" for a line break).  Each call of the facade is one    *)
(* thread walking through the statements of the method, one action per     *)
(* statement that other threads can observe.                               *)
(***************************************************************************)
EXTENDS Integers, Sequences, FiniteSets, TLC

(***************************************************************************)
(* Bounds of the model.                                                    *)
(***************************************************************************)
MaxCalls == 2
MaxConstructions == 3
MaxText == 4

Threads == {"t1", "t2"}
NoThread == "none"
ThreadOrder == [t \in Threads |-> IF t = "t1" THEN 1 ELSE 2]

(***************************************************************************)
(* Levels of the logging module, as used by logs.py.                       *)
(***************************************************************************)
NOTSET == 0
DEBUG == 10
INFO == 20
WARN == 30
ERROR == 40

SetLevels == {WARN, ERROR}

(***************************************************************************)
(* Text helpers.                                                           *)
(***************************************************************************)
Whitespace == {" ", "\n"}

\* str.split() with no argument: the maximal runs of non-whitespace.
RECURSIVE SplitFrom(_, _, _, _)
SplitFrom(s, i, word, acc) ==
    IF i > Len(s)
    THEN IF word = <<>> THEN acc ELSE Append(acc, word)
    ELSE IF s[i] \in Whitespace
         THEN SplitFrom(s, i + 1, <<>>, IF word = <<>> THEN acc ELSE Append(acc, word))
         ELSE SplitFrom(s, i + 1, Append(word, s[i]), acc)

Split(s) == SplitFrom(s, 1, <<>>, <<>>)

\* " ".join(parts)
RECURSIVE Join(_)
Join(parts) ==
    IF parts = <<>> THEN <<>>
    ELSE IF Len(parts) = 1 THEN parts[1]
    ELSE parts[1] \o <<" ">> \o Join(Tail(parts))

\* str(list) of a list of strings: ['a', 'b']
RECURSIVE ReprItems(_)
ReprItems(parts) ==
    IF parts = <<>> THEN <<>>
    ELSE IF Len(parts) = 1 THEN <<"'">> \o parts[1] \o <<"'">>
    ELSE <<"'">> \o parts[1] \o <<"'", ",", " ">> \o ReprItems(Tail(parts))

ListRepr(parts) == <<"[">> \o ReprItems(parts) \o <<"]">>

(***************************************************************************)
(* remove_color_codes: the regular expression                              *)
(*   \x1B(?:[@-Z\\-_]|\[[0-?]*[ -/]*[@-~])                                 *)
(* over the characters of the model.                                       *)
(***************************************************************************)
FeChars == {"T", "A", "]"}                  \* [@-Z\\-_]
ParamChars == {"0", "1", "3", ";"}          \* [0-?]
InterChars == {" ", "'", ",", "."}          \* [ -/]
FinalChars == {"T", "A", "[", "]", "a", "b", "m", "{", "}"}   \* [@-~]

RECURSIVE SkipClass(_, _, _)
SkipClass(s, j, class) ==
    IF j <= Len(s) /\ s[j] \in class THEN SkipClass(s, j + 1, class) ELSE j

\* Length of the escape sequence that starts at s[i] = ESC, 0 when none does.
EscapeLen(s, i) ==
    IF i + 1 > Len(s) THEN 0
    ELSE IF s[i + 1] \in FeChars THEN 2
    ELSE IF s[i + 1] = "["
         THEN LET j == SkipClass(s, SkipClass(s, i + 2, ParamChars), InterChars)
              IN  IF j <= Len(s) /\ s[j] \in FinalChars THEN j - i + 1 ELSE 0
         ELSE 0

RECURSIVE StripFrom(_, _)
StripFrom(s, i) ==
    IF i > Len(s) THEN <<>>
    ELSE IF s[i] = "ESC" /\ EscapeLen(s, i) > 0
         THEN StripFrom(s, i + EscapeLen(s, i))
         ELSE <<s[i]>> \o StripFrom(s, i + 1)

remove_color_codes(s) == StripFrom(s, 1)

(***************************************************************************)
(* Values passed to the facade.                                            *)
(***************************************************************************)
\* A message or content argument: a string or a list of strings.
StrVal(s) == [isList |-> FALSE, str |-> s, list |-> <<>>]
ListVal(l) == [isList |-> TRUE, str |-> <<>>, list |-> l]

\* Python truthiness of a message: "" and [] are false.
Truthy(m) == IF m.isList THEN m.list # <<>> ELSE m.str # <<>>

\* str(m), as %-formatting and logging.LogRecord.getMessage apply it.
StrOf(m) == IF m.isList THEN ListRepr(m.list) ELSE m.str

\* A title_color argument: a string, or a value that is no string (None).
StrColor(s) == [isStr |-> TRUE, str |-> s]
NonStrColor == [isStr |-> FALSE, str |-> <<>>]

YELLOW == <<"ESC", "[", "3", "3", "m">>     \* colorama Fore.YELLOW
RED == <<"ESC", "[", "3", "1", "m">>        \* colorama Fore.RED
RESET_ALL == <<"ESC", "[", "0", "m">>       \* colorama Style.RESET_ALL

\* A log_json data argument: a string, or an object that is no string (a dict).
JsonKeys == {"a", "b"}
TextData(s) == [isStr |-> TRUE, text |-> s, obj |-> "none"]
ObjData(k) == [isStr |-> FALSE, text |-> <<>>, obj |-> k]
NoData == [isStr |-> TRUE, text |-> <<>>, obj |-> "none"]

Files == {"f1", "f2"}
NoFile == "none"

Titles == {<<"T">>}
Payloads == {TextData(<<"{", "a", "}">>), TextData(<<"{", "\n", "b", "\n", "}">>),
             TextData(<<"{", "a">>), ObjData("a")}

\* The calls of typewriter_log: <<title_color, content, level>>.
TypewriterInputs ==
    {<<StrColor(YELLOW), ListVal(<<<<"a">>, <<"b">>>>), INFO>>,
     <<StrColor(YELLOW), StrVal(<<"a">>), ERROR>>,
     <<StrColor(YELLOW), StrVal(<<>>), DEBUG>>,
     <<NonStrColor, StrVal(<<"a">>), INFO>>,
     <<NonStrColor, StrVal(<<"a">>), DEBUG>>}

\* The calls of debug, info, warn and error: <<method, message>>.
PlainInputs ==
    {<<"debug", StrVal(<<"a">>)>>,
     <<"info", ListVal(<<<<"a">>, <<"b">>>>)>>,
     <<"warn", StrVal(<<>>)>>,
     <<"error", StrVal(<<"a">>)>>}
\* The observers an application registers: lists of plugins whose report
\* returns ("ok") or raises ("failing").
PluginLists == {<<"ok", "ok">>, <<"failing", "ok">>, <<"ok", "failing">>}

(***************************************************************************)
(* json.loads, json.dump(indent=4) and json.dumps on the documents of the  *)
(* model: a document is an object with one key, written { key } with       *)
(* optional line breaks; the indented form has them, the compact one not.  *)
(***************************************************************************)
RECURSIVE DropWhitespace(_)
DropWhitespace(s) ==
    IF s = <<>> THEN <<>>
    ELSE IF Head(s) \in Whitespace THEN DropWhitespace(Tail(s))
    ELSE <<Head(s)>> \o DropWhitespace(Tail(s))

\* json.loads raises TypeError on a non-string and JSONDecodeError on a
\* string that is no document.
LoadsRaises(d) ==
    \/ ~d.isStr
    \/ LET s == DropWhitespace(d.text)
       IN  ~(Len(s) = 3 /\ s[1] = "{" /\ s[2] \in JsonKeys /\ s[3] = "}")

Loads(d) == DropWhitespace(d.text)[2]

DumpIndent(k) == <<"{", "\n", k, "\n", "}">>

DumpsCompact(k) == <<"{", k, "}">>

(***************************************************************************)
(* Handlers.  A handler object is identified by its kind and by the        *)
(* construction (or the log_json call) that created it.                    *)
(***************************************************************************)
Handler(kind, id, file) == [kind |-> kind, id |-> id, file |-> file]

\* Every handler is left at one level, DEBUG.
EveryHandlerDebug(h) == DEBUG

\* setLevel of each handler in Logger.__init__; a JsonFileHandler keeps the
\* default NOTSET.
HandlerLevel(h) ==
    CASE h.kind = "typing" -> INFO
      [] h.kind = "console" -> DEBUG
      [] h.kind = "file" -> DEBUG
      [] h.kind = "error" -> ERROR
      [] h.kind = "json" -> NOTSET

Channels == {"TYPER", "LOGGER", "JSON_LOGGER"}

VARIABLES
    inits,          \* number of times Logger.__init__ has run
    constructions,  \* number of Logger() expressions evaluated
    handlers,       \* channel -> sequence of handlers (logging.Logger.handlers)
    level,          \* channel -> threshold (logging.Logger.level)
    log_lock,       \* holder of Logger.log_lock
    typing_lock,    \* holder of the typing console handler's own lock
    chat_plugins,   \* Logger.chat_plugins
    reports,        \* the report calls the plugins have received
    console,        \* what has been written to standard output
    stderr,         \* the calls logging.Handler.handleError reported
    activity_log,   \* lines of activity.log
    error_log,      \* lines of error.log
    files,          \* file name -> content of the snapshot file
    calls,          \* every call made so far: its arguments and its outcome
    cur,            \* thread -> the call it is in (0: none)
    pc,             \* thread -> the statement it is at
    hidx,           \* thread -> position in the handler list (callHandlers)
    widx            \* thread -> position in the words (TypingConsoleHandler.emit)

vars == <<inits, constructions, handlers, level, log_lock, typing_lock,
          chat_plugins, reports, console, stderr, activity_log, error_log,
          files, calls, cur, pc, hidx, widx>>

facade == <<inits, constructions>>
channels == <<handlers, level>>
locks == <<log_lock, typing_lock>>
observers == <<chat_plugins, reports>>
outputs == <<console, stderr, activity_log, error_log>>
thread == <<cur, pc, hidx, widx>>

(***************************************************************************)
(* Logger() : the Singleton metaclass and Logger.__init__.                 *)
(***************************************************************************)
\* The handlers Logger.__init__ creates and attaches to each channel.
Attached(gen) ==
    LET typing_console_handler == Handler("typing", gen, NoFile)
        console_handler == Handler("console", gen, NoFile)
        file_handler == Handler("file", gen, NoFile)
        error_handler == Handler("error", gen, NoFile)
    IN  [c \in Channels |->
            CASE c = "TYPER" -> <<typing_console_handler, file_handler, error_handler>>
              [] c = "LOGGER" -> <<console_handler, file_handler, error_handler>>
              [] c = "JSON_LOGGER" -> <<file_handler, error_handler>>]

\* The state when the module is loaded: logger = Logger() has run once.
Init ==
    /\ inits = 1
    /\ constructions = 1
    /\ handlers = Attached(1)
    /\ level = [c \in Channels |-> DEBUG]
    /\ log_lock = NoThread
    /\ typing_lock = NoThread
    /\ chat_plugins = <<>>
    /\ reports = <<>>
    /\ console = <<>>
    /\ stderr = <<>>
    /\ activity_log = <<>>
    /\ error_log = <<>>
    /\ files = [f \in Files |-> <<>>]
    /\ calls = <<>>
    /\ cur = [t \in Threads |-> 0]
    /\ pc = [t \in Threads |-> "idle"]
    /\ hidx = [t \in Threads |-> 0]
    /\ widx = [t \in Threads |-> 0]

\* Logger.__init__ run once more: logging.getLogger returns the one logger of
\* each name, and addHandler appends to the handlers it already has.
LoggerInit(gen) ==
    /\ handlers' = [c \in Channels |-> handlers[c] \o Attached(gen)[c]]
    /\ level' = [c \in Channels |-> DEBUG]
    /\ chat_plugins' = <<>>
    /\ log_lock' = NoThread
    /\ inits' = gen

\* Singleton.__call__ : __init__ runs only when the class has no instance yet.
SingletonCreates == inits = 0

\* Logger() of a class without the metaclass: __init__ runs each time.
ConstructEachTime ==
    /\ constructions < MaxConstructions
    /\ constructions' = constructions + 1
    /\ LoggerInit(inits + 1)
    /\ UNCHANGED <<typing_lock, reports, outputs, files, calls, thread>>

\* Logger()
Construct ==
    /\ constructions < MaxConstructions
    /\ constructions' = constructions + 1
    /\ IF SingletonCreates
       THEN LoggerInit(inits + 1)
       ELSE UNCHANGED <<inits, handlers, level, chat_plugins, log_lock>>
    /\ UNCHANGED <<typing_lock, reports, outputs, files, calls, thread>>

(***************************************************************************)
(* Calls.  calls[id] holds the arguments of call id and, for the           *)
(* properties: how it ended (outcome), whether its channel was enabled for *)
(* its level when it checked (enabled), how many times it wrote a snapshot *)
(* file (writes), and from the moment it began: the handlers of            *)
(* JSON_LOGGER (pre), the content of its file (before) and whether no      *)
(* other call was running (alone), and the number of Logger() expressions  *)
(* evaluated (built) and the holder of log_lock (held).                    *)
(***************************************************************************)
PlainOps == {"debug", "info", "warn", "error"}
LogOps == PlainOps \cup {"typewriter_log"}

Call(op, lv, title, color, content, data, file) ==
    [op |-> op, level |-> lv, title |-> title, color |-> color,
     content |-> content, data |-> data, file |-> file,
     outcome |-> "running", enabled |-> "unchecked", writes |-> 0,
     pre |-> handlers["JSON_LOGGER"],
     before |-> IF file = NoFile THEN <<>> ELSE files[file],
     alone |-> \A u \in Threads : pc[u] = "idle",
     built |-> constructions,
     held |-> log_lock]

\* Thread t can make the next call.  The threads are interchangeable: of two
\* threads that are both between calls, the first is taken to be the caller.
Idle(t) ==
    /\ pc[t] = "idle"
    /\ Len(calls) < MaxCalls
    /\ \A u \in Threads : pc[u] = "idle" => ThreadOrder[t] <= ThreadOrder[u]

Begin(t, call, at) ==
    /\ calls' = Append(calls, call)
    /\ cur' = [cur EXCEPT ![t] = Len(calls) + 1]
    /\ pc' = [pc EXCEPT ![t] = at]

\* The call of thread t is over: it returned or raised.
Finish(t, how) ==
    /\ calls' = [calls EXCEPT ![cur[t]].outcome = how]
    /\ cur' = [cur EXCEPT ![t] = 0]
    /\ pc' = [pc EXCEPT ![t] = "idle"]
    /\ hidx' = [hidx EXCEPT ![t] = 0]
    /\ widx' = [widx EXCEPT ![t] = 0]

\* The channel a call logs to.
ChannelOf(c) ==
    CASE c.op = "typewriter_log" -> "TYPER"
      [] c.op \in PlainOps -> "LOGGER"
      [] c.op = "log_json" -> "JSON_LOGGER"

\* The channel takes every level.
AlwaysEnabled(ch, lv) == TRUE

\* logging.Logger.isEnabledFor
IsEnabledFor(ch, lv) == lv >= level[ch]

\* callHandlers passes over a handler when record.levelno < hdlr.level: the
\* first position from i on whose handler takes the record of call c.
RECURSIVE NextAccepting(_, _)
NextAccepting(c, i) ==
    IF i > Len(handlers[ChannelOf(c)]) \/ c.level >= HandlerLevel(handlers[ChannelOf(c)][i])
    THEN i
    ELSE NextAccepting(c, i + 1)

\* logging.Logger.log: no handler is called when the channel is not enabled
\* for the level.
FirstHandler(c) ==
    IF IsEnabledFor(ChannelOf(c), c.level)
    THEN NextAccepting(c, 1)
    ELSE Len(handlers[ChannelOf(c)]) + 1

\* Call c once logging.Logger.log has checked its level.
Checked(c) ==
    [c EXCEPT !.enabled = IF IsEnabledFor(ChannelOf(c), c.level) THEN "yes" ELSE "no"]

(***************************************************************************)
(* The record a call hands to its channel, and RecordFormatter.format.     *)
(***************************************************************************)
\* typewriter_log: content joined when it is a non-empty list, "" when falsy.
TypewriterContent(content) ==
    IF Truthy(content)
    THEN IF content.isList THEN StrVal(Join(content.list)) ELSE content
    ELSE StrVal(<<>>)

\* _log hands the message on as it was passed, joined or not.
MessageAsPassed(message) == message

\* _log: message joined when it is a non-empty list, otherwise as passed.
LogMessage(message) ==
    IF Truthy(message) /\ message.isList THEN StrVal(Join(message.list)) ELSE message

\* record.msg of a call of typewriter_log or _log.
RecordMsg(c) ==
    CASE c.op = "typewriter_log" -> TypewriterContent(c.content)
      [] c.op \in PlainOps -> LogMessage(c.content)

\* extra={"title": ..., "color": ...} is passed by typewriter_log and _log only.
HasColor(c) == c.op \in LogOps

\* color + title + " " + RESET_ALL raises TypeError when color is no string.
FormatRaises(c) == HasColor(c) /\ ~c.color.isStr

TitleColor(c) ==
    IF HasColor(c) THEN c.color.str \o c.title \o <<" ">> \o RESET_ALL ELSE c.title

\* record.getMessage(): str(record.msg); of a dict, its compact text.
GetMessage(c) ==
    IF c.op = "log_json"
    THEN IF c.data.isStr THEN c.data.text ELSE DumpsCompact(c.data.obj)
    ELSE StrOf(RecordMsg(c))

\* remove_color_codes(record.msg): a non-string is first json.dumps-ed.
MessageNoColor(c) ==
    IF c.op = "log_json"
    THEN remove_color_codes(IF c.data.isStr THEN c.data.text ELSE DumpsCompact(c.data.obj))
    ELSE remove_color_codes(StrOf(RecordMsg(c)))

\* "%(title_color)s %(message)s"
ConsoleFormat(c) == TitleColor(c) \o <<" ">> \o GetMessage(c)

\* "%(asctime)s %(levelname)s %(title)s %(message_no_color)s", and for
\* error.log with "%(module)s:%(funcName)s:%(lineno)d" before the title.
FileLine(id, c, located) ==
    [call |-> id, level |-> c.level, title |-> c.title, msg |-> MessageNoColor(c),
     located |-> located]

Written(id, kind, text) == [call |-> id, kind |-> kind, text |-> text]

(***************************************************************************)
(* chat_plugins: the observers of typewriter_log.                          *)
(***************************************************************************)
\* The application fills logger.chat_plugins before it logs.
RegisterPlugins(ps) ==
    /\ calls = <<>>
    /\ chat_plugins = <<>>
    /\ chat_plugins' = ps
    /\ UNCHANGED <<facade, channels, locks, reports, outputs, files, calls, thread>>

\* f"{title}. {content}" with the content as passed
ReportText(c) == c.title \o <<".", " ">> \o StrOf(c.content)

(***************************************************************************)
(* set_level                                                               *)
(***************************************************************************)
SetLevelLogger(t, lv) ==
    /\ Idle(t)
    /\ Begin(t, Call("set_level", lv, <<>>, StrColor(<<>>), StrVal(<<>>), NoData, NoFile),
             "set_typing")
    /\ level' = [level EXCEPT !["LOGGER"] = lv]
    /\ UNCHANGED <<facade, handlers, locks, observers, outputs, files, hidx, widx>>

SetLevelTyper(t) ==
    /\ pc[t] = "set_typing"
    /\ level' = [level EXCEPT !["TYPER"] = calls[cur[t]].level]
    /\ Finish(t, "returned")
    /\ UNCHANGED <<facade, handlers, locks, observers, outputs, files>>

(***************************************************************************)
(* debug, info, warn, error: _log and logging.Logger.log                   *)
(***************************************************************************)
PlainLevel(op) ==
    CASE op = "debug" -> DEBUG
      [] op = "info" -> INFO
      [] op = "warn" -> WARN
      [] op = "error" -> ERROR

\* _log waits for log_lock before it logs.
PlainLogLocked(t, op, title, message) ==
    LET color == IF op = "error" THEN StrColor(RED) ELSE StrColor(<<>>)
        call == Call(op, PlainLevel(op), title, color, message, NoData, NoFile)
    IN  /\ Idle(t)
        /\ log_lock = NoThread
        /\ Begin(t, Checked(call), "handlers")
        /\ hidx' = [hidx EXCEPT ![t] = FirstHandler(call)]
        /\ UNCHANGED <<facade, channels, locks, observers, outputs, files, widx>>

PlainLog(t, op, title, message) ==
    LET color == IF op = "error" THEN StrColor(RED) ELSE StrColor(<<>>)
        call == Call(op, PlainLevel(op), title, color, message, NoData, NoFile)
    IN  /\ Idle(t)
        /\ Begin(t, Checked(call), "handlers")
        /\ hidx' = [hidx EXCEPT ![t] = FirstHandler(call)]
        /\ UNCHANGED <<facade, channels, locks, observers, outputs, files, widx>>

(***************************************************************************)
(* typewriter_log                                                          *)
(***************************************************************************)
TypewriterStart(t, title, color, content, lv) ==
    /\ Idle(t)
    /\ Begin(t, Call("typewriter_log", lv, title, color, content, NoData, NoFile),
             "report")
    /\ hidx' = [hidx EXCEPT ![t] = 1]
    /\ UNCHANGED <<facade, channels, locks, observers, outputs, files, widx>>

\* A plugin's report raises.
ReportRaises(p) == p = "failing"

\* for plugin in self.chat_plugins: plugin.report(...)
TypewriterReport(t) ==
    /\ pc[t] = "report"
    /\ hidx[t] <= Len(chat_plugins)
    /\ reports' = Append(reports, [call |-> cur[t], index |-> hidx[t],
                                   plugin |-> chat_plugins[hidx[t]],
                                   text |-> ReportText(calls[cur[t]])])
    /\ IF ReportRaises(chat_plugins[hidx[t]])
       THEN Finish(t, "raised")
       ELSE hidx' = [hidx EXCEPT ![t] = @ + 1] /\ UNCHANGED <<calls, cur, pc, widx>>
    /\ UNCHANGED <<facade, channels, locks, chat_plugins, outputs, files>>

\* acquire returns at once, whether the lock is held or not.
LockNeverBlocks(lock) == TRUE

\* threading.Lock.acquire blocks while the lock is held.
CanAcquire(lock) == lock = NoThread

\* self.log_lock.acquire(), then self.typing_logger.log(level, content, extra=...):
\* the handlers are called when the channel is enabled for the level.
TypewriterAcquire(t) ==
    /\ pc[t] = "report"
    /\ hidx[t] > Len(chat_plugins)
    /\ CanAcquire(log_lock)
    /\ log_lock' = t
    /\ pc' = [pc EXCEPT ![t] = "handlers"]
    /\ hidx' = [hidx EXCEPT ![t] = FirstHandler(calls[cur[t]])]
    /\ calls' = [calls EXCEPT ![cur[t]] = Checked(@)]
    /\ UNCHANGED <<facade, channels, typing_lock, observers, outputs, files, cur, widx>>

\* self.log_lock.release(), once callHandlers is over
TypewriterRelease(t) ==
    /\ pc[t] = "handlers"
    /\ calls[cur[t]].op = "typewriter_log"
    /\ hidx[t] > Len(handlers["TYPER"])
    /\ log_lock' = NoThread
    /\ Finish(t, "returned")
    /\ UNCHANGED <<facade, channels, typing_lock, observers, outputs, files>>

(***************************************************************************)
(* logging.Logger.callHandlers: for hdlr in self.handlers, over the live   *)
(* list, each handler that accepts the level handling the record.          *)
(***************************************************************************)
AtHandler(t) == pc[t] = "handlers" /\ hidx[t] <= Len(handlers[ChannelOf(calls[cur[t]])])

HandlerAt(t) == handlers[ChannelOf(calls[cur[t]])][hidx[t]]

NextHandler(t) == hidx' = [hidx EXCEPT ![t] = NextAccepting(calls[cur[t]], @ + 1)]

\* The loop is over: debug, info, warn and error return, log_json goes on.
HandlersDone(t) ==
    /\ pc[t] = "handlers"
    /\ calls[cur[t]].op # "typewriter_log"
    /\ hidx[t] > Len(handlers[ChannelOf(calls[cur[t]])])
    /\ IF calls[cur[t]].op = "log_json"
       THEN pc' = [pc EXCEPT ![t] = "remove"] /\ UNCHANGED <<calls, cur, hidx, widx>>
       ELSE Finish(t, "returned")
    /\ UNCHANGED <<facade, channels, locks, observers, outputs, files>>

\* logging.FileHandler.emit of activity.log and error.log: the line is
\* formatted and appended; an exception of the formatter is handled there
\* (logging.StreamHandler.emit) and the line is not written.
FileEmit(t) ==
    /\ AtHandler(t)
    /\ HandlerAt(t).kind \in {"file", "error"}
    /\ IF FormatRaises(calls[cur[t]])
       THEN stderr' = Append(stderr, cur[t]) /\ UNCHANGED <<activity_log, error_log>>
       ELSE /\ UNCHANGED stderr
            /\ IF HandlerAt(t).kind = "file"
               THEN /\ activity_log' = Append(activity_log, FileLine(cur[t], calls[cur[t]], FALSE))
                    /\ UNCHANGED error_log
               ELSE /\ error_log' = Append(error_log, FileLine(cur[t], calls[cur[t]], TRUE))
                    /\ UNCHANGED activity_log
    /\ NextHandler(t)
    /\ UNCHANGED <<facade, channels, locks, observers, console, files, calls, cur, pc, widx>>

\* ConsoleHandler.emit: except Exception: self.handleError(record)
ConsoleCatches == TRUE

\* ConsoleHandler.emit: format, then print(msg), which may fail.
ConsoleEmit(t, ok) ==
    /\ AtHandler(t)
    /\ HandlerAt(t).kind = "console"
    /\ IF FormatRaises(calls[cur[t]])
       THEN Finish(t, "raised") /\ UNCHANGED <<console, stderr>>
       ELSE IF ok
       THEN /\ console' = Append(console, Written(cur[t], "line", ConsoleFormat(calls[cur[t]])))
            /\ NextHandler(t)
            /\ UNCHANGED <<stderr, calls, cur, pc, widx>>
       ELSE IF ConsoleCatches
       THEN /\ stderr' = Append(stderr, cur[t])
            /\ NextHandler(t)
            /\ UNCHANGED <<console, calls, cur, pc, widx>>
       ELSE Finish(t, "raised") /\ UNCHANGED <<console, stderr>>
    /\ UNCHANGED <<facade, channels, locks, observers, activity_log, error_log, files>>

(***************************************************************************)
(* TypingConsoleHandler.emit, under the handler's own lock                 *)
(* (logging.Handler.handle): the words of the formatted record one by one. *)
(***************************************************************************)
Words(c) == Split(ConsoleFormat(c))

\* except Exception: self.handleError(record) does not catch the failure.
TypingPropagates == FALSE

\* TypingConsoleHandler.emit: except Exception: self.handleError(record)
TypingCatches == TRUE

\* msg = self.format(record), outside the try block, then words = msg.split()
TypingEmit(t) ==
    /\ AtHandler(t)
    /\ HandlerAt(t).kind = "typing"
    /\ CanAcquire(typing_lock)
    /\ IF FormatRaises(calls[cur[t]])
       THEN Finish(t, "raised") /\ UNCHANGED typing_lock
       ELSE /\ typing_lock' = t
            /\ widx' = [widx EXCEPT ![t] = 1]
            /\ pc' = [pc EXCEPT ![t] = IF Words(calls[cur[t]]) = <<>>
                                       THEN "type_end" ELSE "type_word"]
            /\ UNCHANGED <<calls, cur, hidx>>
    /\ UNCHANGED <<facade, channels, log_lock, observers, outputs, files>>

\* A print of the animation fails: the emit is over, handled or not.
TypingFails(t) ==
    /\ typing_lock' = NoThread
    /\ IF TypingCatches
       THEN /\ stderr' = Append(stderr, cur[t])
            /\ pc' = [pc EXCEPT ![t] = "handlers"]
            /\ NextHandler(t)
            /\ widx' = [widx EXCEPT ![t] = 0]
            /\ UNCHANGED <<calls, cur>>
       ELSE Finish(t, "raised") /\ UNCHANGED stderr
    /\ UNCHANGED console

\* print(word, end="", flush=True)
TypeWord(t, ok) ==
    /\ pc[t] = "type_word"
    /\ IF ok
       THEN /\ console' = Append(console, Written(cur[t], "word", Words(calls[cur[t]])[widx[t]]))
            /\ IF widx[t] < Len(Words(calls[cur[t]]))
               THEN pc' = [pc EXCEPT ![t] = "type_space"] /\ UNCHANGED widx
               ELSE pc' = [pc EXCEPT ![t] = "type_end"]
                    /\ widx' = [widx EXCEPT ![t] = @ + 1]
            /\ UNCHANGED <<typing_lock, stderr, calls, cur, hidx>>
       ELSE TypingFails(t)
    /\ UNCHANGED <<facade, channels, log_lock, observers, activity_log, error_log, files>>

\* if i < len(words) - 1: print(" ", end="", flush=True)
TypeSpace(t, ok) ==
    /\ pc[t] = "type_space"
    /\ IF ok
       THEN /\ console' = Append(console, Written(cur[t], "space", <<" ">>))
            /\ pc' = [pc EXCEPT ![t] = "type_word"]
            /\ widx' = [widx EXCEPT ![t] = @ + 1]
            /\ UNCHANGED <<typing_lock, stderr, calls, cur, hidx>>
       ELSE TypingFails(t)
    /\ UNCHANGED <<facade, channels, log_lock, observers, activity_log, error_log, files>>

\* print() after the last word
TypeEnd(t, ok) ==
    /\ pc[t] = "type_end"
    /\ IF ok
       THEN /\ console' = Append(console, Written(cur[t], "end", <<"\n">>))
            /\ typing_lock' = NoThread
            /\ pc' = [pc EXCEPT ![t] = "handlers"]
            /\ NextHandler(t)
            /\ widx' = [widx EXCEPT ![t] = 0]
            /\ UNCHANGED <<stderr, calls, cur>>
       ELSE TypingFails(t)
    /\ UNCHANGED <<facade, channels, log_lock, observers, activity_log, error_log, files>>

(***************************************************************************)
(* log_json and JsonFileHandler                                            *)
(***************************************************************************)
\* The handler of a log_json call.
JsonHandler(id) == Handler("json", id, calls[id].file)

\* logging.Logger.removeHandler: list.remove of the handler, when it is there.
RECURSIVE Remove(_, _)
Remove(hs, h) ==
    IF hs = <<>> THEN <<>>
    ELSE IF Head(hs) = h THEN Tail(hs)
    ELSE <<Head(hs)>> \o Remove(Tail(hs), h)

\* JsonFileHandler(json_file_path), which opens the file for appending and
\* leaves its content as it is, setFormatter, and json_logger.addHandler.
LogJsonAttach(t, data, file) ==
    /\ Idle(t)
    /\ Begin(t, Call("log_json", DEBUG, <<>>, StrColor(<<>>), StrVal(<<>>), data, file),
             "json_debug")
    /\ handlers' = [handlers EXCEPT !["JSON_LOGGER"] =
                        Append(@, Handler("json", Len(calls) + 1, file))]
    /\ UNCHANGED <<facade, level, locks, observers, outputs, files, hidx, widx>>

\* self.json_logger.debug(data)
LogJsonDebug(t) ==
    /\ pc[t] = "json_debug"
    /\ pc' = [pc EXCEPT ![t] = "handlers"]
    /\ hidx' = [hidx EXCEPT ![t] = FirstHandler(calls[cur[t]])]
    /\ calls' = [calls EXCEPT ![cur[t]] = Checked(@)]
    /\ UNCHANGED <<facade, channels, locks, observers, outputs, files, cur, widx>>

\* The file is opened for writing, and so emptied, before the data is parsed.
OpenThenParse(content, data) ==
    IF LoadsRaises(data) THEN <<>> ELSE DumpIndent(Loads(data))

\* JsonFileHandler.emit: the content of the file after an emit of data
\* (json.loads, then open(..., "w") and json.dump with indent=4).
EmitContent(content, data) ==
    IF LoadsRaises(data) THEN content ELSE DumpIndent(Loads(data))

\* JsonFileHandler.emit, with JsonFormatter.format returning record.msg; an
\* exception of json.loads leaves emit, callHandlers and log_json.
JsonEmit(t) ==
    /\ AtHandler(t)
    /\ HandlerAt(t).kind = "json"
    /\ files' = [files EXCEPT ![HandlerAt(t).file] = EmitContent(@, calls[cur[t]].data)]
    /\ IF LoadsRaises(calls[cur[t]].data)
       THEN Finish(t, "raised")
       ELSE /\ calls' = [calls EXCEPT ![cur[t]].writes = @ + 1]
            /\ NextHandler(t)
            /\ UNCHANGED <<cur, pc, widx>>
    /\ UNCHANGED <<facade, channels, locks, observers, outputs>>

\* self.json_logger.removeHandler(json_data_handler)
LogJsonRemove(t) ==
    /\ pc[t] = "remove"
    /\ handlers' = [handlers EXCEPT !["JSON_LOGGER"] = Remove(@, JsonHandler(cur[t]))]
    /\ Finish(t, "returned")
    /\ UNCHANGED <<facade, level, locks, observers, outputs, files>>

(***************************************************************************)
(* Specifications.  Spec: the logging calls (debug, info, warn, error,     *)
(* typewriter_log, set_level) with the observers.  SpecJson: log_json.     *)
(***************************************************************************)
Dispatch ==
    \E t \in Threads :
        \/ HandlersDone(t)
        \/ FileEmit(t)

\* The steps of typewriter_log after the observers have been notified; each
\* print of the animation succeeds or not as prints says.
Typewriter(inputs, prints) ==
    \/ \E t \in Threads, title \in Titles, in \in inputs :
            TypewriterStart(t, title, in[1], in[2], in[3])
    \/ \E t \in Threads : TypewriterAcquire(t)
    \/ \E t \in Threads : TypewriterRelease(t)
    \/ \E t \in Threads : TypingEmit(t)
    \/ \E t \in Threads, ok \in prints : TypeWord(t, ok)
    \/ \E t \in Threads, ok \in prints : TypeSpace(t, ok)
    \/ \E t \in Threads, ok \in prints : TypeEnd(t, ok)

SetLevel ==
    \/ \E t \in Threads, lv \in SetLevels : SetLevelLogger(t, lv)
    \/ \E t \in Threads : SetLevelTyper(t)

Plain(inputs, prints) ==
    \/ \E t \in Threads, title \in Titles, in \in inputs :
            PlainLog(t, in[1], title, in[2])
    \/ \E t \in Threads, ok \in prints : ConsoleEmit(t, ok)

\* The console takes every write.
Next ==
    \/ SetLevel
    \/ Plain(PlainInputs, {TRUE})
    \/ Typewriter(TypewriterInputs, {TRUE})
    \/ Dispatch

Spec == Init /\ [][Next]_vars

\* A write to the console may fail.
NextWriteFailure ==
    \/ Plain({in \in PlainInputs : in[1] = "error"}, BOOLEAN)
    \/ Typewriter({in \in TypewriterInputs : in[1].isStr /\ in[3] >= INFO}, BOOLEAN)
    \/ Dispatch

SpecWriteFailure == Init /\ [][NextWriteFailure]_vars

NextObservers ==
    \/ \E ps \in PluginLists : RegisterPlugins(ps)
    \/ \E t \in Threads : TypewriterReport(t)
    \/ SetLevel
    \/ Typewriter(TypewriterInputs, {TRUE})
    \/ \E t \in Threads : FileEmit(t)

SpecObservers == Init /\ [][NextObservers]_vars

NextJson ==
    \/ \E t \in Threads, d \in Payloads, f \in Files : LogJsonAttach(t, d, f)
    \/ \E t \in Threads : LogJsonDebug(t)
    \/ \E t \in Threads : JsonEmit(t)
    \/ \E t \in Threads : LogJsonRemove(t)
    \/ Dispatch

SpecJson == Init /\ [][NextJson]_vars

\* Logger() evaluated again, at any moment, among calls of info, error and
\* log_json.
NextSingleton ==
    \/ Construct
    \/ Plain({in \in PlainInputs : in[1] \in {"info", "error"}}, {TRUE})
    \/ \E t \in Threads : LogJsonAttach(t, TextData(<<"{", "a", "}">>), "f1")
    \/ \E t \in Threads : LogJsonDebug(t)
    \/ \E t \in Threads : JsonEmit(t)
    \/ \E t \in Threads : LogJsonRemove(t)
    \/ Dispatch

SpecSingleton == Init /\ [][NextSingleton]_vars

\* The messages remove_color_codes is applied to: every string of at most
\* MaxText characters among ESC, "[", a parameter byte, final bytes and a
\* plain character.
Alphabet == {"ESC", "[", "0", "m", "A", "a"}

Texts == UNION {[1..n -> Alphabet] : n \in 0..MaxText}

\* logger.info(m, "T") has been called with a message m of Texts and is about
\* to call the handlers of LOGGER.
InitStrip ==
    /\ inits = 1
    /\ constructions = 1
    /\ handlers = Attached(1)
    /\ level = [c \in Channels |-> DEBUG]
    /\ log_lock = NoThread
    /\ typing_lock = NoThread
    /\ chat_plugins = <<>>
    /\ reports = <<>>
    /\ console = <<>>
    /\ stderr = <<>>
    /\ activity_log = <<>>
    /\ error_log = <<>>
    /\ files = [f \in Files |-> <<>>]
    /\ pc = [t \in Threads |-> IF t = "t1" THEN "handlers" ELSE "idle"]
    /\ \E m \in Texts :
            calls = <<[Checked(Call("info", INFO, <<"T">>, StrColor(<<>>), StrVal(m),
                                    NoData, NoFile)) EXCEPT !.alone = TRUE]>>
    /\ cur = [t \in Threads |-> IF t = "t1" THEN 1 ELSE 0]
    /\ hidx = [t \in Threads |-> IF t = "t1" THEN 1 ELSE 0]
    /\ widx = [t \in Threads |-> 0]

NextStrip ==
    \/ \E t \in Threads : ConsoleEmit(t, TRUE)
    \/ Dispatch

SpecStrip == InitStrip /\ [][NextStrip]_vars

\* The steps by which thread t goes on with the call it is in.
Continue(t) ==
    \/ SetLevelTyper(t)
    \/ ConsoleEmit(t, TRUE)
    \/ TypewriterAcquire(t)
    \/ TypewriterRelease(t)
    \/ TypingEmit(t)
    \/ TypeWord(t, TRUE)
    \/ TypeSpace(t, TRUE)
    \/ TypeEnd(t, TRUE)
    \/ HandlersDone(t)
    \/ FileEmit(t)

\* Every thread that can go on with its call eventually does: the threads
\* are scheduled, the sleeps of the animation end, acquire returns once the
\* lock is free.
SpecLive == Spec /\ \A t \in Threads : WF_vars(Continue(t))

(***************************************************************************)
(* Properties.                                                             *)
(***************************************************************************)
CallIds == 1..Len(calls)

Range(seq) == {seq[k] : k \in 1..Len(seq)}

Finished(i) == calls[i].outcome # "running"

NoneRunning == \A t \in Threads : pc[t] = "idle"

\* Thread t takes the step.
StepOf(t) == <<cur[t], pc[t], hidx[t], widx[t]>> # <<cur'[t], pc'[t], hidx'[t], widx'[t]>>

\* The call thread t is in, before or after the step.
CallOf(t) == IF cur[t] # 0 THEN cur[t] ELSE cur'[t]

\* The indented document of a log_json data argument that is JSON: a string
\* that parses, or an object.
IsJson(d) == ~d.isStr \/ ~LoadsRaises(d)

Document(d) == IF d.isStr THEN DumpIndent(Loads(d)) ELSE DumpIndent(d.obj)

\* C2: once a log_json call is over, by returning or by raising, the handler
\* it attached is no longer among the handlers of JSON_LOGGER.
C2_NoResidualHandler ==
    \A i \in CallIds :
        (calls[i].op = "log_json" /\ Finished(i))
            => JsonHandler(i) \notin Range(handlers["JSON_LOGGER"])

\* C3: a log_json request writes a snapshot file at most once.
C3_AtMostOneWrite ==
    \A i \in CallIds : calls[i].op = "log_json" => calls[i].writes <= 1

\* The log_json calls made so far ran one after the other and all named f.
SequenceOn(f) ==
    /\ calls # <<>>
    /\ NoneRunning
    /\ \A i \in CallIds : calls[i].op = "log_json" /\ calls[i].file = f /\ calls[i].alone

\* C7: after a sequence of log_json calls naming the same file, the file
\* holds the indented document of the data of the last call.
C7_LastSnapshot ==
    \A f \in Files :
        (SequenceOn(f) /\ IsJson(calls[Len(calls)].data))
            => files[f] = Document(calls[Len(calls)].data)

\* C8: a log_json call whose payload does not parse changes no snapshot file
\* in any of its steps and ends by raising; when no other call ran during it,
\* its file holds what it held before the call.
C8_MalformedNotWritten ==
    [][/\ \A t \in Threads :
            (StepOf(t) /\ CallOf(t) # 0 /\ calls'[CallOf(t)].op = "log_json"
                /\ LoadsRaises(calls'[CallOf(t)].data))
                => files' = files
       /\ \A i \in 1..Len(calls') :
            (calls'[i].op = "log_json" /\ LoadsRaises(calls'[i].data)
                /\ calls'[i].outcome # "running")
                => /\ calls'[i].outcome = "raised"
                   /\ (calls'[i].alone /\ i = Len(calls'))
                        => files'[calls'[i].file] = calls'[i].before]_vars

\* A call with a payload that does not parse has raised, alone, on a file
\* that held a snapshot, which it still holds.
C8_Witness ==
    \E i \in CallIds :
        /\ calls[i].op = "log_json"
        /\ LoadsRaises(calls[i].data)
        /\ calls[i].outcome = "raised"
        /\ calls[i].alone
        /\ i = Len(calls)
        /\ calls[i].before # <<>>
        /\ files[calls[i].file] = calls[i].before

\* The lines call i has in a log file, or its line on the console.
LinesOf(log, i) == {k \in 1..Len(log) : log[k].call = i}

HasLine(log, i) == LinesOf(log, i) # {}

\* The handlers of channel c that a construction attached: all but the
\* handlers of log_json calls.
ConstructorHandlers(c) == SelectSeq(handlers[c], LAMBDA h : h.kind # "json")

\* C9: however many times Logger() is evaluated, __init__ has run once, each
\* channel holds the handlers of the first construction, each once, and a
\* call has at most one line in activity.log, in error.log and on the console.
C9_SinksInitializedOnce ==
    /\ inits = 1
    /\ \A c \in Channels : ConstructorHandlers(c) = Attached(1)[c]
    /\ \A i \in CallIds :
        /\ Cardinality(LinesOf(activity_log, i)) <= 1
        /\ Cardinality(LinesOf(error_log, i)) <= 1
        /\ Cardinality(LinesOf(console, i)) <= 1

\* An error call made after the third Logger() has returned with one line in
\* each of its sinks.
C9_Witness ==
    \E i \in CallIds :
        /\ calls[i].built >= 3
        /\ calls[i].op = "error"
        /\ calls[i].outcome = "returned"
        /\ Cardinality(LinesOf(activity_log, i)) = 1
        /\ Cardinality(LinesOf(error_log, i)) = 1
        /\ Cardinality(LinesOf(console, i)) = 1

\* What the animations have written to the console, in order.
Animation == SelectSeq(console, LAMBDA w : w.kind \in {"word", "space", "end"})

\* C1: where the animation passes from one call to another, the first has
\* written its line terminator and the second has written nothing before: the
\* writes of each animation are contiguous.
C1_AnimationContiguous ==
    \A k \in 1..(Len(Animation) - 1) :
        Animation[k].call # Animation[k + 1].call
            => /\ Animation[k].kind = "end"
               /\ \A j \in 1..k : Animation[j].call # Animation[k + 1].call

\* Two typewriter_log calls that ran at the same time have both written their
\* words and their line terminator.
C1_Witness ==
    \E i, j \in CallIds :
        /\ i < j
        /\ calls[i].op = "typewriter_log" /\ calls[j].op = "typewriter_log"
        /\ ~calls[j].alone
        /\ \E k, m \in 1..Len(Animation) :
            /\ Animation[k].call = i /\ Animation[k].kind = "end"
            /\ Animation[m].call = j /\ Animation[m].kind = "end"
        /\ \E k \in 1..Len(Animation) : Animation[k].kind = "word"

Reported(i, k) == \E r \in Range(reports) : r.call = i /\ r.index = k

\* C4: every typewriter_log call that is over has reported to each plugin of
\* chat_plugins and has logged its event to the TYPER channel.
C4_ObserverFailureIsolated ==
    \A i \in CallIds :
        (calls[i].op = "typewriter_log" /\ Finished(i))
            => /\ \A k \in 1..Len(chat_plugins) : Reported(i, k)
               /\ calls[i].enabled # "unchecked"

\* Thread t takes the step in which its call of debug, info, warn, error or
\* typewriter_log checks the level of its channel.
ChecksLevel(t) ==
    /\ StepOf(t)
    /\ CallOf(t) # 0
    /\ calls'[CallOf(t)].op \in LogOps
    /\ calls'[CallOf(t)].enabled # "unchecked"
    /\ cur[t] = 0 \/ calls[cur[t]].enabled = "unchecked"

\* C5: whenever a call checks the level of its channel, LOGGER and TYPER have
\* the same threshold: no call sees set_level half done.
C5_SetLevelAtomic ==
    [][\A t \in Threads : ChecksLevel(t) => level["LOGGER"] = level["TYPER"]]_vars

\* A call of debug, info, warn, error or typewriter_log, made with a title
\* color that is a string, has returned.
Logged(i) ==
    /\ calls[i].op \in LogOps
    /\ calls[i].outcome = "returned"
    /\ calls[i].color.isStr

\* C6 as stated: whatever set_level calls were made, an event has a line in
\* error.log exactly when its level is at least ERROR, and a line in
\* activity.log when its level is at least DEBUG.
C6_LinesByLevelAlone ==
    \A i \in CallIds :
        Logged(i)
            => /\ HasLine(error_log, i) <=> calls[i].level >= ERROR
               /\ calls[i].level >= DEBUG => HasLine(activity_log, i)

SetLevelsBefore(i) == {j \in 1..(i - 1) : calls[j].op = "set_level"}

\* The threshold the set_level calls before call i have left.
Threshold(i) ==
    IF SetLevelsBefore(i) = {} THEN DEBUG
    ELSE calls[CHOOSE j \in SetLevelsBefore(i) : \A k \in SetLevelsBefore(i) : k <= j].level

\* The calls up to call i ran one after the other, and no call ran during
\* call i.
Sequential(i) == \A j \in CallIds : j <= i + 1 => calls[j].alone

\* C6: an event has a line in activity.log exactly when its channel was
\* enabled for its level at the check of the call, and a line in error.log
\* exactly when moreover its level is at least ERROR; when the calls ran one
\* after the other, the channel is enabled exactly when the level is at least
\* the one given to the last set_level (DEBUG when there was none).
C6_LinesByLevelAndThreshold ==
    \A i \in CallIds :
        Logged(i)
            => /\ HasLine(activity_log, i)
                    <=> (calls[i].enabled = "yes" /\ calls[i].level >= DEBUG)
               /\ HasLine(error_log, i)
                    <=> (calls[i].enabled = "yes" /\ calls[i].level >= ERROR)
               /\ Sequential(i)
                    => (calls[i].enabled = "yes" <=> calls[i].level >= Threshold(i))

\* After a set_level, an event of level ERROR is in both files.
C6_Witness ==
    \E i \in CallIds :
        /\ Logged(i)
        /\ SetLevelsBefore(i) # {}
        /\ Sequential(i)
        /\ calls[i].level >= ERROR
        /\ HasLine(activity_log, i)
        /\ HasLine(error_log, i)

\* C10: a call of debug, info, warn, error or typewriter_log whose record can
\* be formatted returns, whatever writes to the console failed, and the file
\* handlers of its channel have written its lines.
C10_WriteFailureCaught ==
    \A i \in CallIds :
        (calls[i].op \in LogOps /\ Finished(i) /\ ~FormatRaises(calls[i]))
            => /\ calls[i].outcome = "returned"
               /\ HasLine(activity_log, i)
               /\ calls[i].level >= ERROR => HasLine(error_log, i)

\* A typewriter_log call and a call of error, each with a failed
\* write to the console, have returned with their line in activity.log.
C10_Witness ==
    \E i, j \in CallIds :
        /\ calls[i].op = "typewriter_log" /\ calls[j].op \in PlainOps
        /\ i \in Range(stderr) /\ j \in Range(stderr)
        /\ calls[i].outcome = "returned" /\ calls[j].outcome = "returned"
        /\ HasLine(activity_log, i) /\ HasLine(activity_log, j)
        /\ ~HasLine(console, i) /\ ~HasLine(console, j)

\* Thread t is in a call of debug, info, warn or error.
InPlain(t) == cur[t] # 0 /\ calls[cur[t]].op \in PlainOps

\* The next step of the plain call of thread t.
PlainStep(t) == ConsoleEmit(t, TRUE) \/ FileEmit(t) \/ HandlersDone(t)

\* C11: a call of debug, info, warn or error can begin and can take its next
\* step whoever holds log_lock, and none of its steps changes log_lock.
C11_PlainNeverWaits ==
    /\ [](\A t \in Threads :
            /\ Idle(t) => ENABLED PlainLog(t, "info", <<"T">>, StrVal(<<"a">>))
            /\ InPlain(t) => ENABLED PlainStep(t))
    /\ [][\A t \in Threads :
            (StepOf(t) /\ CallOf(t) # 0 /\ calls'[CallOf(t)].op \in PlainOps)
                => log_lock' = log_lock]_vars

\* A call of error, begun while a typewriter_log call held log_lock, has
\* returned with its line on the console and in both files, and the animation
\* has not yet written its line terminator.
C11_Witness ==
    \E i, j \in CallIds :
        /\ calls[i].op = "typewriter_log" /\ calls[i].outcome = "running"
        /\ log_lock # NoThread /\ cur[log_lock] = i
        /\ \E k \in 1..Len(console) : console[k].call = i /\ console[k].kind = "word"
        /\ \A k \in 1..Len(console) : console[k].call = i => console[k].kind # "end"
        /\ i < j
        /\ calls[j].held = log_lock
        /\ calls[j].op = "error" /\ calls[j].outcome = "returned"
        /\ HasLine(console, j) /\ HasLine(activity_log, j) /\ HasLine(error_log, j)
        /\ \E k, m \in 1..Len(console) :
            k < m /\ console[k].call = i /\ console[m].call = j

\* An escape sequence of the pattern starts somewhere in s.
HasEscape(s) == \E i \in 1..Len(s) : s[i] = "ESC" /\ EscapeLen(s, i) > 0

\* C12: the message remove_color_codes has left in a line of activity.log is
\* unchanged by remove_color_codes and holds no escape sequence.
C12_StripIdempotent ==
    \A k \in 1..Len(activity_log) :
        /\ remove_color_codes(activity_log[k].msg) = activity_log[k].msg
        /\ ~HasEscape(activity_log[k].msg)

\* Call i was given a non-empty list of strings as message or content.
ListLogged(i) ==
    calls[i].op \in LogOps /\ calls[i].content.isList /\ calls[i].content.list # <<>>

\* The words the animation has written for call i, in order.
TypedWords(i) ==
    LET typed == SelectSeq(Animation, LAMBDA w : w.call = i /\ w.kind = "word")
    IN  [k \in 1..Len(typed) |-> typed[k].text]

\* C13: for a call given a non-empty list of strings, the message of its
\* lines in activity.log and error.log is the strings joined with single
\* spaces, its console line is the title followed by that message, and the
\* animation writes the words of the title followed by that message.
C13_ListJoined ==
    \A i \in CallIds :
        ListLogged(i)
            => LET joined == Join(calls[i].content.list)
                   shown == TitleColor(calls[i]) \o <<" ">> \o joined
               IN  /\ \A k \in LinesOf(activity_log, i) : activity_log[k].msg = joined
                   /\ \A k \in LinesOf(error_log, i) : error_log[k].msg = joined
                   /\ \A k \in LinesOf(console, i) :
                        console[k].kind = "line" => console[k].text = shown
                   /\ Len(TypedWords(i)) <= Len(Split(shown))
                   /\ TypedWords(i) = SubSeq(Split(shown), 1, Len(TypedWords(i)))

\* info and typewriter_log, each given the list of "a" and "b", have returned:
\* info with its console line and its line in activity.log, typewriter_log
\* with every word typed.
C13_Witness ==
    \E i, j \in CallIds :
        /\ ListLogged(i) /\ calls[i].op \in PlainOps /\ calls[i].outcome = "returned"
        /\ HasLine(console, i) /\ HasLine(activity_log, i)
        /\ \A k \in LinesOf(activity_log, i) : activity_log[k].msg = <<"a", " ", "b">>
        /\ ListLogged(j) /\ calls[j].op = "typewriter_log" /\ calls[j].outcome = "returned"
        /\ HasLine(activity_log, j)
        /\ TypedWords(j) = Split(ConsoleFormat(calls[j]))
        /\ Len(TypedWords(j)) = 4

\* Thread t is in a call of typewriter_log.
InTypewriter(t) == cur[t] # 0 /\ calls[cur[t]].op = "typewriter_log"

\* The typewriter_log call of thread t has begun its work: it has reported to
\* a plugin or it is past the acquisition of log_lock.
BodyStarted(t) ==
    /\ InTypewriter(t)
    /\ Reported(cur[t], 1) \/ (log_lock = t /\ pc[t] # "report")

\* Thread u takes a step of the work of its typewriter_log call: a report to
\* a plugin or a step of the emission (not the acquisition of log_lock).
BodyStep(u) ==
    /\ InTypewriter(u)
    /\ StepOf(u)
    /\ ~(pc[u] = "report" /\ pc'[u] = "handlers")

\* C14: once the typewriter_log call of a thread has begun its work, and
\* until it is over, no other thread takes a step of the work of a
\* typewriter_log call, be it a report to a plugin or a step of the emission.
C14_LockForWholeCall ==
    [][\A t, u \in Threads : (t # u /\ BodyStarted(t)) => ~BodyStep(u)]_vars

\* The reports call i has made, in order.
ReportsOf(i) == SelectSeq(reports, LAMBDA r : r.call = i)

\* Call i has written something to the console or to a log file.
HasOutput(i) == HasLine(console, i) \/ HasLine(activity_log, i) \/ HasLine(error_log, i)

\* C15: the reports of a typewriter_log call go to the plugins in the order
\* of chat_plugins, one each, with the text title ". " content; they have all
\* been made when the call is over and when anything of the call is on the
\* console or in a log file.
C15_ReportsBeforeOutput ==
    \A i \in CallIds :
        calls[i].op = "typewriter_log"
            => /\ Len(ReportsOf(i)) <= Len(chat_plugins)
               /\ \A k \in 1..Len(ReportsOf(i)) :
                    /\ ReportsOf(i)[k].index = k
                    /\ ~calls[i].content.isList
                        => ReportsOf(i)[k].text
                            = calls[i].title \o <<".", " ">> \o calls[i].content.str
               /\ (Finished(i) \/ HasOutput(i)) => Len(ReportsOf(i)) = Len(chat_plugins)

\* The animation has written something for call i.
Animated(i) == \E k \in 1..Len(Animation) : Animation[k].call = i

\* The plain console handler has written the line of call i.
Printed(i) == \E k \in 1..Len(console) : console[k].call = i /\ console[k].kind = "line"

\* C16: what a handler has written for a call of debug, info, warn, error or
\* typewriter_log has a level at least the handler's (INFO for the animation,
\* DEBUG for the plain console and activity.log, ERROR for error.log), and
\* the channel was enabled for that level at the check of the call; when the
\* calls ran one after the other, the level is at least the one given to the
\* last set_level.
C16_SinkThresholds ==
    \A i \in CallIds :
        calls[i].op \in LogOps
            => /\ Animated(i) => calls[i].level >= INFO
               /\ Printed(i) => calls[i].level >= DEBUG
               /\ HasLine(activity_log, i) => calls[i].level >= DEBUG
               /\ HasLine(error_log, i) => calls[i].level >= ERROR
               /\ HasOutput(i) => calls[i].enabled = "yes"
               /\ (HasOutput(i) /\ Sequential(i)) => calls[i].level >= Threshold(i)

\* After a set_level, a call with a level below the one set has returned and
\* no handler has written anything for it.
C16_Witness ==
    \E i \in CallIds :
        /\ Logged(i)
        /\ SetLevelsBefore(i) # {}
        /\ Sequential(i)
        /\ calls[i].level < Threshold(i)
        /\ calls[i].enabled = "no"
        /\ ~HasOutput(i)

\* What the animation writes for the words ws of call i: each word, with a
\* space after it unless it is the last.
RECURSIVE TypedSeq(_, _)
TypedSeq(i, ws) ==
    IF ws = <<>> THEN <<>>
    ELSE IF Len(ws) = 1 THEN <<Written(i, "word", ws[1])>>
    ELSE <<Written(i, "word", ws[1]), Written(i, "space", <<" ">>)>> \o TypedSeq(i, Tail(ws))

\* The whole animation of call i: its words, then one line terminator.
WholeAnimation(i) == TypedSeq(i, Words(calls[i])) \o <<Written(i, "end", <<"\n">>)>>

\* What the animation has written for call i.
AnimationOf(i) == SelectSeq(Animation, LAMBDA w : w.call = i)

\* What is written of an animation is the beginning of the whole animation,
\* and all of it once the call has returned.
AnimationShape ==
    \A i \in CallIds :
        calls[i].op = "typewriter_log"
            => /\ Len(AnimationOf(i)) <= Len(WholeAnimation(i))
               /\ AnimationOf(i) = SubSeq(WholeAnimation(i), 1, Len(AnimationOf(i)))
               /\ (calls[i].outcome = "returned" /\ calls[i].enabled = "yes"
                        /\ calls[i].level >= INFO)
                    => AnimationOf(i) = WholeAnimation(i)

\* Thread t is in TypingConsoleHandler.emit.
Typing(t) == pc[t] \in {"type_word", "type_space", "type_end"}

\* Thread t is in typewriter_log, before log_lock.acquire() has returned.
WaitingForLock(t) == InTypewriter(t) /\ pc[t] = "report" /\ hidx[t] > Len(chat_plugins)

\* Thread t is in typewriter_log, after log_lock.acquire() has returned.
Acquired(t) == InTypewriter(t) /\ pc[t] # "report"

\* The animation writes the words in order, single spaces between them and
\* one line terminator, and every emission ends.
EmissionCompletes ==
    /\ []AnimationShape
    /\ \A t \in Threads : Typing(t) ~> ~Typing(t)

\* C17: the animation writes the words in order, single spaces between them
\* and one line terminator; every emission ends; every typewriter_log call
\* waiting for log_lock obtains it.
C17_AnimationCompletes ==
    /\ EmissionCompletes
    /\ \A t \in Threads : WaitingForLock(t) ~> Acquired(t)

\* C18: log_lock is held only by a thread that is in typewriter_log, past
\* the acquisition: once a call is over, by returning or by raising, the lock
\* is free.
C18_LockReleased == log_lock # NoThread => Acquired(log_lock)

\* Call i is a log_json call that named file f with data that parses.
Names(i, f) ==
    calls[i].op = "log_json" /\ calls[i].file = f /\ ~LoadsRaises(calls[i].data)

\* C19: when every log_json call was given data that parses, a snapshot file
\* holds what it held at first (nothing) or the document of the data of a
\* call that named it.
C19_OwnDataOnly ==
    (\A i \in CallIds : ~LoadsRaises(calls[i].data))
        => \A f \in Files :
            \/ files[f] = <<>>
            \/ \E i \in CallIds : Names(i, f) /\ files[f] = Document(calls[i].data)

====
